---- MODULE Spec2Model ----
(***************************************************************************)
(* Home intruder alarm backend (backend/server.py).                        *)
(*                                                                         *)
(* The server is a set of asyncio request handlers over five MongoDB       *)
(* collections.  Every `await db.<collection>.<call>` is one atomic step   *)
(* of the handler that issues it, together with the synchronous code that  *)
(* follows it up to the next await; the steps of different requests        *)
(* interleave freely.                                                      *)
(***************************************************************************)
EXTENDS Integers, Sequences, FiniteSets, TLC

\* ------------------------------------------------------------------ bounds
NumProcs == 2       \* request slots served concurrently
MaxRequests == 2    \* requests started in one behaviour
MaxZones == 2       \* zone identifiers that can be handed out
MaxSensors == 2     \* sensor identifiers that can be handed out

Procs == 1..NumProcs

\* Python's None, for optional fields; a present optional value v is <<v>>.
NULL == <<>>
Some(v) == <<v>>

\* find_one found nothing
NoDoc == [none |-> TRUE]

\* uuid4 identifiers: the n-th zone and the n-th sensor ever created.
ZoneIds == 1..MaxZones
SensorIds == 1..MaxSensors

\* Identifiers a request can name: those handed out, and one that never was
\* (all identifiers never handed out answer alike).
Known(ids, count) == {i \in ids : i <= count + 1}

Modes == {"armed", "disarmed", "monitoring"}
SensorTypes == {"motion", "door", "window"}
Statuses == {"active", "inactive", "triggered", "offline"}

VARIABLES
    zones,          \* db.zones: zone id -> document
    sensors,        \* db.sensors: sensor id -> document
    events,         \* db.events, in insertion order
    system_state,   \* db.system_state: the documents with id "system_state", in insertion order
    settings,       \* db.settings: the documents with id "settings", in insertion order
    twilio,         \* twilio_client and twilio_phone_number, fixed at import
                    \* and drawn here when send_sms_alert first reads them
    req,            \* per request slot: the handler running there and its locals
    started,        \* requests started so far; also the wall clock
    uuids           \* uuid4 identifiers handed out so far, per document class

vars == <<zones, sensors, events, system_state, settings, twilio, req, started, uuids>>

\* ------------------------------------------------------------------ documents
\* class Zone
Zone(name, description, image_url) ==
    [name |-> name, description |-> description, image_url |-> image_url]

\* class Sensor: status defaults to "inactive", last_triggered to None
Sensor(name, type, zone_id, battery_level) ==
    [name |-> name, type |-> type, zone_id |-> zone_id, status |-> "inactive",
     battery_level |-> battery_level, last_triggered |-> NULL]

\* class Event
Event(type, message, severity, sensor_id, zone_id) ==
    [type |-> type, message |-> message, severity |-> severity,
     sensor_id |-> sensor_id, zone_id |-> zone_id]

\* class SystemState: id "system_state", mode defaults to "disarmed"
DefaultMode == "disarmed"

\* datetime.now(timezone.utc), as a logical clock
Now == started

\* datetime.isoformat()
IsoFormat(t) == <<"iso", t>>

\* class Settings: sms_enabled defaults to False, alert_phone_number to None,
\* updated_at to the time of construction.  A field the stored document lacks
\* reads as None.
SettingsDoc(sms_enabled, alert_phone_number, updated_at) ==
    [sms_enabled |-> sms_enabled, alert_phone_number |-> alert_phone_number,
     updated_at |-> updated_at]

DefaultSettings(now) == SettingsDoc(Some(FALSE), NULL, Some(IsoFormat(now)))

\* class SettingsUpdate
SettingsUpdate(sms_enabled, alert_phone_number) ==
    [sms_enabled |-> sms_enabled, alert_phone_number |-> alert_phone_number]

\* {k: v for k, v in update.model_dump().items() if v is not None}
UpdateData(update) == {k \in DOMAIN update : update[k] # NULL}

\* Mutant: the empty-payload check is missing
NoUpdateData_Never(update) == FALSE

\* if not update_data
NoUpdateData(update) == UpdateData(update) = {}

\* update_one(..., {"$set": update_data}) on one document
SetFields(doc, update) ==
    [k \in DOMAIN doc |->
        IF k \in UpdateData(update) THEN update[k][1] ELSE doc[k]]

\* Mutant: the fields the payload leaves null are written as null
SetOptFields_KeepsNulls(doc, update) ==
    [k \in DOMAIN doc |->
        IF k \in DOMAIN update THEN update[k] ELSE doc[k]]

\* update_one(..., {"$set": update_data}, upsert=True) on the settings
\* collection: patches the first match, inserts a document holding only the
\* supplied fields when there is none.
SetOptFields(doc, update) ==
    [k \in DOMAIN doc |->
        IF k \in UpdateData(update) THEN update[k] ELSE doc[k]]

\* ------------------------------------------------------------------ requests
Idle == [op |-> "none", pc |-> "idle"]
NoResp == [status |-> 0]

Free(p) == req[p].pc \in {"idle", "done"}

\* raise HTTPException(status_code, detail) / an unhandled exception (500)
Fail(r, code) == [r EXCEPT !.pc = "done", !.resp = [status |-> code]]

\* return <body>
Return(r, body) == [r EXCEPT !.pc = "done", !.resp = [status |-> 200] @@ body]

At(p, op, pc) == req[p].op = op /\ req[p].pc = pc

\* Mutant: the Event is built and never inserted
LogEvent_Skips(p, r, ev) ==
    /\ events' = events
    /\ req' = [req EXCEPT ![p] = r]

\* log_event: build the Event and insert it; the request's own record keeps
\* what it has appended.
LogEvent(p, r, ev) ==
    /\ events' = Append(events, ev)
    /\ req' = [req EXCEPT ![p] = [r EXCEPT !.logged = Append(@, ev)]]

\* A request entering its handler in slot p
Begin(op, locals) ==
    [op |-> op, pc |-> "start", resp |-> NoResp, logged |-> <<>>] @@ locals

\* Request slots are interchangeable: a new request takes the lowest free one.
CanStart(p) ==
    /\ Free(p)
    /\ \A q \in Procs : q < p => ~Free(q)
    /\ started < MaxRequests

\* ------------------------------------------------------------------ system state
\* What the caller of get_system_state does with the mode it returns, up to
\* the caller's next await.
AfterSystemState(r, mode) ==
    CASE r.op = "get_state" -> Return(r, [mode |-> mode])
      [] r.op = "update_state" -> [r EXCEPT !.state = mode, !.pc = "us_update"]
      [] r.op = "trigger_sensor" -> [r EXCEPT !.state = mode, !.pc = "ts_log"]
      [] r.op = "get_dashboard_stats" -> [r EXCEPT !.state = mode, !.pc = "dash_zones"]

\* get_system_state, first await: find_one({"id": "system_state"})
SystemStateFind(p, r) ==
    /\ req' = [req EXCEPT ![p] =
                 IF system_state = <<>>
                 THEN [r EXCEPT !.pc = "gss_insert"]
                 ELSE AfterSystemState(r, Head(system_state))]
    /\ UNCHANGED <<zones, sensors, events, system_state, settings, twilio, uuids>>

\* get_system_state, second await: insert_one(SystemState()) when the find
\* returned nothing; the collection has no unique index on "id".
GetSystemStateInsert(p) ==
    /\ req[p].pc = "gss_insert"
    /\ system_state' = Append(system_state, DefaultMode)
    /\ req' = [req EXCEPT ![p] = AfterSystemState(req[p], DefaultMode)]
    /\ UNCHANGED <<zones, sensors, events, settings, twilio, started, uuids>>

\* GET /system/state
GetState(p) ==
    /\ CanStart(p)
    /\ started' = started + 1
    /\ SystemStateFind(p, Begin("get_state", [state |-> "none"]))

\* PUT /system/state: get_system_state()
UpdateState(p, new_mode) ==
    /\ CanStart(p)
    /\ started' = started + 1
    /\ SystemStateFind(p, Begin("update_state",
                                [state |-> "none", new_mode |-> new_mode]))

\* update_one({"id": "system_state"}, {"$set": doc}, upsert=True): the first
\* matching document is replaced, one is inserted when there is none.
UpsertMode(coll, mode) ==
    IF coll = <<>> THEN <<mode>> ELSE [coll EXCEPT ![1] = mode]

\* The Event update_state logs for a change to new_mode
StateChangeEvent(new_mode) ==
    CASE new_mode = "armed" -> Event("armed", <<"System armed">>, "warning", NULL, NULL)
      [] new_mode = "disarmed" -> Event("disarmed", <<"System disarmed">>, "info", NULL, NULL)
      [] new_mode = "monitoring" ->
            Event("monitor_start", <<"Monitoring mode enabled">>, "info", NULL, NULL)

\* Mutant: the change is logged without comparing the modes
StateChanged_Always(old_mode, new_mode) == TRUE

\* if old_mode != new_mode
StateChanged(old_mode, new_mode) == old_mode # new_mode

\* PUT /system/state: the upsert, then the comparison of old and new mode
UpdateStateWrite(p) ==
    /\ At(p, "update_state", "us_update")
    /\ system_state' = UpsertMode(system_state, req[p].new_mode)
    /\ req' = [req EXCEPT ![p] =
                 IF StateChanged(req[p].state, req[p].new_mode)
                 THEN [req[p] EXCEPT !.pc = "us_log"]
                 ELSE Return(req[p], [mode |-> req[p].new_mode])]
    /\ UNCHANGED <<zones, sensors, events, settings, twilio, started, uuids>>

\* PUT /system/state: log_event for the change
UpdateStateLog(p) ==
    /\ At(p, "update_state", "us_log")
    /\ LogEvent(p, Return(req[p], [mode |-> req[p].new_mode]),
                StateChangeEvent(req[p].new_mode))
    /\ UNCHANGED <<zones, sensors, system_state, settings, twilio, started, uuids>>

\* ------------------------------------------------------------------ inputs
ZoneNames == {"Hall"}
SensorNames == {"Front"}
\* SensorCreate.type: "motion", and one of the types that "open"
CreateTypes == {"motion", "door"}

\* ZoneUpdate payloads: every field null, or one field supplied
ZoneUpdates ==
    { [name |-> NULL, description |-> NULL, image_url |-> NULL],
      [name |-> Some("Attic"), description |-> NULL, image_url |-> NULL] }

\* SensorUpdate payloads: every field null, or one field supplied (zone_id is
\* not validated: a stored zone's or not)
SensorUpdates ==
    { [name |-> NULL, zone_id |-> NULL, status |-> NULL, battery_level |-> NULL] }
    \cup { [name |-> NULL, zone_id |-> NULL, status |-> Some(st), battery_level |-> NULL] :
             st \in {"offline"} }
    \cup { [name |-> NULL, zone_id |-> Some(z), status |-> NULL, battery_level |-> NULL] :
             z \in Known(ZoneIds, uuids.zone) }

\* ------------------------------------------------------------------ zones
\* The UpdateResult of an update_one that matched a document
UpdateResult(before, after) ==
    [matched_count |-> 1, modified_count |-> IF after = before THEN 0 ELSE 1]

\* POST /zones: Zone(**zone_data) with a fresh uuid4, insert_one
CreateZone(p, name) ==
    /\ CanStart(p)
    /\ uuids.zone < MaxZones
    /\ started' = started + 1
    /\ uuids' = [uuids EXCEPT !.zone = @ + 1]
    /\ LET id == uuids.zone + 1 IN
        /\ zones' = (id :> Zone(name, "", "")) @@ zones
        /\ req' = [req EXCEPT ![p] =
                     [Begin("create_zone", [zone_id |-> id, name |-> name])
                        EXCEPT !.pc = "cz_log"]]
    /\ UNCHANGED <<sensors, events, system_state, settings, twilio>>

\* POST /zones: log_event("zone_added")
CreateZoneLog(p) ==
    /\ At(p, "create_zone", "cz_log")
    /\ LogEvent(p, Return(req[p], [id |-> req[p].zone_id]),
                Event("zone_added", <<"Zone added", req[p].name>>, "info",
                      NULL, Some(req[p].zone_id)))
    /\ UNCHANGED <<zones, sensors, system_state, settings, twilio, started, uuids>>

\* PUT /zones/{zone_id}: the empty-payload check, then update_one
UpdateZone(p, zone_id, update) ==
    /\ CanStart(p)
    /\ started' = started + 1
    /\ LET r == Begin("update_zone",
                      [zone_id |-> zone_id, update |-> update, result |-> NoDoc]) IN
        IF NoUpdateData(update)
        THEN /\ req' = [req EXCEPT ![p] = Fail(r, 400)]
             /\ UNCHANGED zones
        ELSE IF zone_id \notin DOMAIN zones
        THEN /\ req' = [req EXCEPT ![p] =
                          Fail([r EXCEPT !.result =
                                  [matched_count |-> 0, modified_count |-> 0]], 404)]
             /\ UNCHANGED zones
        ELSE /\ zones' = [zones EXCEPT ![zone_id] = SetFields(@, update)]
             /\ req' = [req EXCEPT ![p] =
                          [r EXCEPT !.result = UpdateResult(zones[zone_id],
                                                            SetFields(zones[zone_id], update)),
                                    !.pc = "uz_find"]]
    /\ UNCHANGED <<sensors, events, system_state, settings, twilio, uuids>>

\* PUT /zones/{zone_id}: find_one for the response; zone.get on None raises
UpdateZoneFind(p) ==
    /\ At(p, "update_zone", "uz_find")
    /\ req' = [req EXCEPT ![p] =
                 IF req[p].zone_id \in DOMAIN zones
                 THEN Return(req[p], [zone |-> zones[req[p].zone_id]])
                 ELSE Fail(req[p], 500)]
    /\ UNCHANGED <<zones, sensors, events, system_state, settings, twilio, started, uuids>>

\* DELETE /zones/{zone_id}: find_one
DeleteZone(p, zone_id) ==
    /\ CanStart(p)
    /\ started' = started + 1
    /\ LET r == Begin("delete_zone", [zone_id |-> zone_id, name |-> "none"]) IN
        req' = [req EXCEPT ![p] =
                  IF zone_id \in DOMAIN zones
                  THEN [r EXCEPT !.name = zones[zone_id].name, !.pc = "dz_sensors"]
                  ELSE Fail(r, 404)]
    /\ UNCHANGED <<zones, sensors, events, system_state, settings, twilio, uuids>>

\* Mutant: delete_one in place of delete_many, only the first match goes
DeleteMany_FirstOnly(coll, zone_id) ==
    LET hit == {t \in DOMAIN coll : coll[t].zone_id = zone_id} IN
    [s \in {t \in DOMAIN coll : t \notin hit \/ \E u \in hit : u < t} |-> coll[s]]

\* delete_many({"zone_id": zone_id}) on the sensors collection
DeleteMany(coll, zone_id) ==
    [s \in {t \in DOMAIN coll : coll[t].zone_id # zone_id} |-> coll[s]]

\* delete_one({"id": id})
DeleteOne(coll, id) == [k \in DOMAIN coll \ {id} |-> coll[k]]

\* DELETE /zones/{zone_id}: delete the zone's sensors
DeleteZoneSensors(p) ==
    /\ At(p, "delete_zone", "dz_sensors")
    /\ sensors' = DeleteMany(sensors, req[p].zone_id)
    /\ req' = [req EXCEPT ![p].pc = "dz_zone"]
    /\ UNCHANGED <<zones, events, system_state, settings, twilio, started, uuids>>

\* DELETE /zones/{zone_id}: delete the zone
DeleteZoneZone(p) ==
    /\ At(p, "delete_zone", "dz_zone")
    /\ zones' = DeleteOne(zones, req[p].zone_id)
    /\ req' = [req EXCEPT ![p].pc = "dz_log"]
    /\ UNCHANGED <<sensors, events, system_state, settings, twilio, started, uuids>>

\* DELETE /zones/{zone_id}: log_event("zone_removed")
DeleteZoneLog(p) ==
    /\ At(p, "delete_zone", "dz_log")
    /\ LogEvent(p, Return(req[p], [message |-> "Zone deleted"]),
                Event("zone_removed", <<"Zone removed", req[p].name>>, "info",
                      NULL, Some(req[p].zone_id)))
    /\ UNCHANGED <<zones, sensors, system_state, settings, twilio, started, uuids>>

\* ------------------------------------------------------------------ sensors
\* POST /sensors: find_one on the zone ("Verify zone exists")
CreateSensor(p, name, type, zone_id) ==
    /\ CanStart(p)
    /\ uuids.sensor < MaxSensors
    /\ started' = started + 1
    /\ LET r == Begin("create_sensor",
                      [sensor_id |-> 0, sensor |-> Sensor(name, type, zone_id, 100)]) IN
        IF zone_id \in DOMAIN zones
        THEN /\ uuids' = [uuids EXCEPT !.sensor = @ + 1]
             /\ req' = [req EXCEPT ![p] =
                          [r EXCEPT !.sensor_id = uuids.sensor + 1, !.pc = "cs_insert"]]
        ELSE /\ req' = [req EXCEPT ![p] = Fail(r, 404)]
             /\ UNCHANGED uuids
    /\ UNCHANGED <<zones, sensors, events, system_state, settings, twilio>>

\* POST /sensors: insert_one
CreateSensorInsert(p) ==
    /\ At(p, "create_sensor", "cs_insert")
    /\ sensors' = (req[p].sensor_id :> req[p].sensor) @@ sensors
    /\ req' = [req EXCEPT ![p].pc = "cs_log"]
    /\ UNCHANGED <<zones, events, system_state, settings, twilio, started, uuids>>

\* POST /sensors: log_event("sensor_added")
CreateSensorLog(p) ==
    /\ At(p, "create_sensor", "cs_log")
    /\ LogEvent(p, Return(req[p], [id |-> req[p].sensor_id]),
                Event("sensor_added",
                      <<"Sensor added to zone", req[p].sensor.name, req[p].sensor.type>>,
                      "info", Some(req[p].sensor_id), Some(req[p].sensor.zone_id)))
    /\ UNCHANGED <<zones, sensors, system_state, settings, twilio, started, uuids>>

\* PUT /sensors/{sensor_id}: the empty-payload check, then update_one
UpdateSensor(p, sensor_id, update) ==
    /\ CanStart(p)
    /\ started' = started + 1
    /\ LET r == Begin("update_sensor",
                      [sensor_id |-> sensor_id, update |-> update, result |-> NoDoc]) IN
        IF NoUpdateData(update)
        THEN /\ req' = [req EXCEPT ![p] = Fail(r, 400)]
             /\ UNCHANGED sensors
        ELSE IF sensor_id \notin DOMAIN sensors
        THEN /\ req' = [req EXCEPT ![p] =
                          Fail([r EXCEPT !.result =
                                  [matched_count |-> 0, modified_count |-> 0]], 404)]
             /\ UNCHANGED sensors
        ELSE /\ sensors' = [sensors EXCEPT ![sensor_id] = SetFields(@, update)]
             /\ req' = [req EXCEPT ![p] =
                          [r EXCEPT !.result = UpdateResult(sensors[sensor_id],
                                                            SetFields(sensors[sensor_id], update)),
                                    !.pc = "usn_find"]]
    /\ UNCHANGED <<zones, events, system_state, settings, twilio, uuids>>

\* PUT /sensors/{sensor_id}: find_one for the response; sensor.get on None raises
UpdateSensorFind(p) ==
    /\ At(p, "update_sensor", "usn_find")
    /\ req' = [req EXCEPT ![p] =
                 IF req[p].sensor_id \in DOMAIN sensors
                 THEN Return(req[p], [sensor |-> sensors[req[p].sensor_id]])
                 ELSE Fail(req[p], 500)]
    /\ UNCHANGED <<zones, sensors, events, system_state, settings, twilio, started, uuids>>

\* DELETE /sensors/{sensor_id}: find_one
DeleteSensor(p, sensor_id) ==
    /\ CanStart(p)
    /\ started' = started + 1
    /\ LET r == Begin("delete_sensor", [sensor_id |-> sensor_id, sensor |-> NoDoc]) IN
        req' = [req EXCEPT ![p] =
                  IF sensor_id \in DOMAIN sensors
                  THEN [r EXCEPT !.sensor = sensors[sensor_id], !.pc = "ds_delete"]
                  ELSE Fail(r, 404)]
    /\ UNCHANGED <<zones, sensors, events, system_state, settings, twilio, uuids>>

\* DELETE /sensors/{sensor_id}: delete_one
DeleteSensorDelete(p) ==
    /\ At(p, "delete_sensor", "ds_delete")
    /\ sensors' = DeleteOne(sensors, req[p].sensor_id)
    /\ req' = [req EXCEPT ![p].pc = "ds_log"]
    /\ UNCHANGED <<zones, events, system_state, settings, twilio, started, uuids>>

\* DELETE /sensors/{sensor_id}: log_event("sensor_removed")
DeleteSensorLog(p) ==
    /\ At(p, "delete_sensor", "ds_log")
    /\ LogEvent(p, Return(req[p], [message |-> "Sensor deleted"]),
                Event("sensor_removed", <<"Sensor removed", req[p].sensor.name>>, "info",
                      Some(req[p].sensor_id), Some(req[p].sensor.zone_id)))
    /\ UNCHANGED <<zones, sensors, system_state, settings, twilio, started, uuids>>

\* Mutant: the reset flips an "active" sensor back to "inactive"
ResetStatus_Toggles(doc) ==
    [doc EXCEPT !.status = IF @ = "active" THEN "inactive" ELSE "active"]

\* update_one({"id": sensor_id}, {"$set": {"status": "active"}})
ResetStatus(doc) == [doc EXCEPT !.status = "active"]

\* POST /sensors/{sensor_id}/reset
ResetSensor(p, sensor_id) ==
    /\ CanStart(p)
    /\ started' = started + 1
    /\ LET r == Begin("reset_sensor", [sensor_id |-> sensor_id, result |-> NoDoc]) IN
        IF sensor_id \in DOMAIN sensors
        THEN /\ sensors' = [sensors EXCEPT ![sensor_id] = ResetStatus(@)]
             /\ req' = [req EXCEPT ![p] =
                          Return([r EXCEPT !.result =
                                    UpdateResult(sensors[sensor_id],
                                                 ResetStatus(sensors[sensor_id]))],
                                 [message |-> "Sensor reset"])]
        ELSE /\ req' = [req EXCEPT ![p] =
                          Fail([r EXCEPT !.result =
                                  [matched_count |-> 0, modified_count |-> 0]], 404)]
             /\ UNCHANGED sensors
    /\ UNCHANGED <<zones, events, system_state, settings, twilio, uuids>>

\* ------------------------------------------------------------------ trigger
\* POST /sensors/trigger: find_one on the sensor
TriggerSensor(p, sensor_id) ==
    /\ CanStart(p)
    /\ started' = started + 1
    /\ LET r == Begin("trigger_sensor",
                      [sensor_id |-> sensor_id, sensor |-> NoDoc, zone_name |-> "none",
                       now |-> 0, state |-> "none", sms_calls |-> 0,
                       provider |-> <<>>, sms_result |-> NULL]) IN
        req' = [req EXCEPT ![p] =
                  IF sensor_id \in DOMAIN sensors
                  THEN [r EXCEPT !.sensor = sensors[sensor_id], !.pc = "ts_zone"]
                  ELSE Fail(r, 404)]
    /\ UNCHANGED <<zones, sensors, events, system_state, settings, twilio, uuids>>

\* zone['name'] if zone else "Unknown Zone"
ZoneName(zone_id) ==
    IF zone_id \in DOMAIN zones THEN zones[zone_id].name ELSE "Unknown Zone"

\* POST /sensors/trigger: find_one on the sensor's zone, then now = datetime.now()
TriggerZone(p) ==
    /\ At(p, "trigger_sensor", "ts_zone")
    /\ req' = [req EXCEPT ![p].zone_name = ZoneName(req[p].sensor.zone_id),
                          ![p].now = Now,
                          ![p].pc = "ts_update"]
    /\ UNCHANGED <<zones, sensors, events, system_state, settings, twilio, started, uuids>>

\* Mutant: the update stamps last_triggered but leaves the status alone
MarkTriggered_StampOnly(doc, now) == [doc EXCEPT !.last_triggered = IsoFormat(now)]

\* {"$set": {"status": "triggered", "last_triggered": now.isoformat()}}
MarkTriggered(doc, now) ==
    [doc EXCEPT !.status = "triggered", !.last_triggered = IsoFormat(now)]

\* POST /sensors/trigger: update_one on the sensor (matches nothing if the
\* sensor has been deleted meanwhile)
TriggerUpdate(p) ==
    /\ At(p, "trigger_sensor", "ts_update")
    /\ sensors' = IF req[p].sensor_id \in DOMAIN sensors
                  THEN [sensors EXCEPT ![req[p].sensor_id] = MarkTriggered(@, req[p].now)]
                  ELSE sensors
    /\ req' = [req EXCEPT ![p].pc = "ts_state"]
    /\ UNCHANGED <<zones, events, system_state, settings, twilio, started, uuids>>

\* POST /sensors/trigger: state = await get_system_state()
TriggerGetState(p) ==
    /\ At(p, "trigger_sensor", "ts_state")
    /\ SystemStateFind(p, req[p])
    /\ UNCHANGED started

\* "Motion detected" if type == 'motion' else f"{type.capitalize()} opened"
SensorTypeLabel(type) ==
    CASE type = "motion" -> "Motion detected"
      [] type = "door" -> "Door opened"
      [] type = "window" -> "Window opened"

\* f"{sensor_type_label} - {sensor['name']} in {zone_name}"
TriggerMessage(r) == <<SensorTypeLabel(r.sensor.type), r.sensor.name, r.zone_name>>

\* if state.mode == "armed": the intrusion Event, send_sms_alert, the alert
ArmedBranch ==
    [type |-> "intrusion", prefix |-> "INTRUSION DETECTED", severity |-> "danger",
     notify |-> TRUE, alert |-> TRUE, reply |-> "INTRUSION"]

\* elif state.mode == "monitoring": the movement is logged
MonitoringBranch ==
    [type |-> "sensor_triggered", prefix |-> "Movement detected", severity |-> "warning",
     notify |-> FALSE, alert |-> FALSE, reply |-> "Movement logged"]

\* else: system disarmed, no alert
DisarmedBranch ==
    [type |-> "sensor_triggered", prefix |-> "Sensor triggered (system disarmed)",
     severity |-> "info", notify |-> FALSE, alert |-> FALSE, reply |-> "Logged"]

\* Mutant: the armed branch forgets to call send_sms_alert
TriggerBranch_ArmedSilent(mode) ==
    CASE mode = "armed" -> [ArmedBranch EXCEPT !.notify = FALSE]
      [] mode = "monitoring" -> MonitoringBranch
      [] OTHER -> DisarmedBranch

\* Mutant: the monitoring branch calls send_sms_alert too
TriggerBranch_MonitoringNotifies(mode) ==
    CASE mode = "armed" -> ArmedBranch
      [] mode = "monitoring" -> [MonitoringBranch EXCEPT !.notify = TRUE]
      [] OTHER -> DisarmedBranch

\* Mutant: the monitoring branch logs and answers with severity "info"
TriggerBranch_MonitoringInfo(mode) ==
    CASE mode = "armed" -> ArmedBranch
      [] mode = "monitoring" -> [MonitoringBranch EXCEPT !.severity = "info"]
      [] OTHER -> DisarmedBranch

\* The if / elif / else on state.mode: the Event logged, whether
\* send_sms_alert is called, and the response.
TriggerBranch(mode) ==
    CASE mode = "armed" -> ArmedBranch
      [] mode = "monitoring" -> MonitoringBranch
      [] OTHER -> DisarmedBranch

\* return {"alert": ..., "message": ..., "severity": ...}
TriggerResponse(r) ==
    LET b == TriggerBranch(r.state) IN
    Return(r, [alert |-> b.alert, message |-> <<b.reply>> \o TriggerMessage(r),
               severity |-> b.severity])

\* POST /sensors/trigger: log_event for the branch taken; the armed branch
\* goes on to call send_sms_alert.
TriggerLog(p) ==
    /\ At(p, "trigger_sensor", "ts_log")
    /\ LET r == req[p]
           b == TriggerBranch(r.state) IN
        LogEvent(p,
                 IF b.notify
                 THEN [r EXCEPT !.sms_calls = @ + 1, !.pc = "sms_find"]
                 ELSE TriggerResponse(r),
                 Event(b.type, <<b.prefix>> \o TriggerMessage(r), b.severity,
                       Some(r.sensor_id), Some(r.sensor.zone_id)))
    /\ UNCHANGED <<zones, sensors, system_state, settings, twilio, started, uuids>>

\* ------------------------------------------------------------------ send_sms_alert
\* Mutant: the check forgets the phone number
SmsDisabled_IgnoresPhone(coll) ==
    IF coll = <<>>
    THEN TRUE
    ELSE Head(coll).sms_enabled \in {NULL, Some(FALSE)}

\* not settings or not settings.get('sms_enabled') or not settings.get('alert_phone_number')
SmsDisabled(coll) ==
    IF coll = <<>>
    THEN TRUE
    ELSE \/ Head(coll).sms_enabled \in {NULL, Some(FALSE)}
         \/ Head(coll).alert_phone_number \in {NULL, Some("")}

\* The environment at import: TWILIO_ACCOUNT_SID / TWILIO_AUTH_TOKEN give a
\* client or none, TWILIO_PHONE_NUMBER is set or not.  Nothing but
\* send_sms_alert reads them, so which environment the server runs in is
\* left open until that first read and is fixed from then on.
TwilioConfigs ==
    { [read |-> TRUE, client |-> TRUE, phone_number |-> TRUE],
      [read |-> TRUE, client |-> FALSE, phone_number |-> TRUE],
      [read |-> TRUE, client |-> TRUE, phone_number |-> FALSE] }

TwilioUnread == [read |-> FALSE]

TwilioEnv == IF twilio.read THEN {twilio} ELSE TwilioConfigs

\* not twilio_client or not twilio_phone_number
TwilioUnconfigured(env) == ~env.client \/ ~env.phone_number

\* Mutant: a provider error is not caught and fails the request
SendSmsAlert_Raises(p) ==
    /\ At(p, "trigger_sensor", "sms_find")
    /\ \/ /\ SmsDisabled(settings)
          /\ req' = [req EXCEPT ![p] = TriggerResponse([req[p] EXCEPT !.sms_result = Some(FALSE)])]
          /\ UNCHANGED twilio
       \/ /\ ~SmsDisabled(settings)
          /\ \E env \in TwilioEnv :
               /\ twilio' = env
               /\ TwilioUnconfigured(env)
               /\ req' = [req EXCEPT ![p] =
                            TriggerResponse([req[p] EXCEPT !.sms_result = Some(FALSE)])]
       \/ /\ ~SmsDisabled(settings)
          /\ \E env \in TwilioEnv, sent \in BOOLEAN :
               /\ twilio' = env
               /\ ~TwilioUnconfigured(env)
               /\ req' = [req EXCEPT ![p] =
                            IF sent
                            THEN [req[p] EXCEPT !.provider = Append(@, "sent"),
                                                !.pc = "sms_log"]
                            ELSE Fail([req[p] EXCEPT !.provider = Append(@, "raised")], 500)]
    /\ UNCHANGED <<zones, sensors, events, system_state, settings, started, uuids>>

\* send_sms_alert: find_one on the settings, the two early returns, then the
\* provider call twilio_client.messages.create, which returns or raises.
SendSmsAlert(p) ==
    /\ At(p, "trigger_sensor", "sms_find")
    /\ \/ /\ SmsDisabled(settings)
          /\ req' = [req EXCEPT ![p] = TriggerResponse([req[p] EXCEPT !.sms_result = Some(FALSE)])]
          /\ UNCHANGED twilio
       \/ /\ ~SmsDisabled(settings)
          /\ \E env \in TwilioEnv :
               /\ twilio' = env
               /\ TwilioUnconfigured(env)
               /\ req' = [req EXCEPT ![p] =
                            TriggerResponse([req[p] EXCEPT !.sms_result = Some(FALSE)])]
       \/ /\ ~SmsDisabled(settings)
          /\ \E env \in TwilioEnv, sent \in BOOLEAN :
               /\ twilio' = env
               /\ ~TwilioUnconfigured(env)
               /\ req' = [req EXCEPT ![p] =
                            IF sent
                            THEN [req[p] EXCEPT !.provider = Append(@, "sent"),
                                                !.pc = "sms_log"]
                            ELSE TriggerResponse([req[p] EXCEPT
                                                    !.provider = Append(@, "raised"),
                                                    !.sms_result = Some(FALSE)])]
    /\ UNCHANGED <<zones, sensors, events, system_state, settings, started, uuids>>

\* send_sms_alert: log_event("sms_sent") after a successful send, return True
SendSmsAlertLog(p) ==
    /\ At(p, "trigger_sensor", "sms_log")
    /\ LogEvent(p, TriggerResponse([req[p] EXCEPT !.sms_result = Some(TRUE)]),
                Event("sms_sent",
                      <<"SMS alert sent", "SECURITY ALERT">> \o TriggerMessage(req[p]),
                      "info", NULL, NULL))
    /\ UNCHANGED <<zones, sensors, system_state, settings, twilio, started, uuids>>

\* ------------------------------------------------------------------ events
\* Mutant: the log is emptied and the request returns without logging
ClearEvents_NoLog(p) ==
    /\ CanStart(p)
    /\ started' = started + 1
    /\ events' = <<>>
    /\ req' = [req EXCEPT ![p] =
                 Return(Begin("clear_events", <<>>), [message |-> "Events cleared"])]
    /\ UNCHANGED <<zones, sensors, system_state, settings, twilio, uuids>>

\* DELETE /events: delete_many({})
ClearEvents(p) ==
    /\ CanStart(p)
    /\ started' = started + 1
    /\ events' = <<>>
    /\ req' = [req EXCEPT ![p] = [Begin("clear_events", <<>>) EXCEPT !.pc = "ce_log"]]
    /\ UNCHANGED <<zones, sensors, system_state, settings, twilio, uuids>>

ClearedEvent == Event("system", <<"Activity log cleared">>, "info", NULL, NULL)

\* DELETE /events: log_event("system", "Activity log cleared")
ClearEventsLog(p) ==
    /\ At(p, "clear_events", "ce_log")
    /\ LogEvent(p, Return(req[p], [message |-> "Events cleared"]), ClearedEvent)
    /\ UNCHANGED <<zones, sensors, system_state, settings, twilio, started, uuids>>

\* ------------------------------------------------------------------ settings
\* SettingsUpdate payloads
SettingsUpdates ==
    { SettingsUpdate(NULL, NULL),
      SettingsUpdate(Some(TRUE), NULL),
      SettingsUpdate(Some(FALSE), NULL),
      SettingsUpdate(NULL, Some("+15550100")) }

\* GET /settings: find_one
GetSettings(p) ==
    /\ CanStart(p)
    /\ started' = started + 1
    /\ LET r == Begin("get_settings", [now |-> Now]) IN
        req' = [req EXCEPT ![p] =
                  IF settings = <<>>
                  THEN [r EXCEPT !.pc = "gs_insert"]
                  ELSE Return(r, [settings |-> Head(settings)])]
    /\ UNCHANGED <<zones, sensors, events, system_state, settings, twilio, uuids>>

\* GET /settings: insert_one(Settings()) when the find returned nothing
GetSettingsInsert(p) ==
    /\ At(p, "get_settings", "gs_insert")
    /\ settings' = Append(settings, DefaultSettings(req[p].now))
    /\ req' = [req EXCEPT ![p] = Return(req[p], [settings |-> DefaultSettings(req[p].now)])]
    /\ UNCHANGED <<zones, sensors, events, system_state, twilio, started, uuids>>

\* update_data of update_settings: the payload with
\* update_data['updated_at'] = datetime.now(timezone.utc).isoformat()
SettingsUpdateData(update, now) ==
    [k \in DOMAIN update \cup {"updated_at"} |->
        IF k = "updated_at" THEN Some(IsoFormat(now)) ELSE update[k]]

\* update_one({"id": "settings"}, {"$set": update_data}, upsert=True)
UpsertSettings(coll, update_data) ==
    IF coll = <<>>
    THEN <<SetOptFields(SettingsDoc(NULL, NULL, NULL), update_data)>>
    ELSE [coll EXCEPT ![1] = SetOptFields(@, update_data)]

\* PUT /settings: the upsert (updated_at is always supplied, so there is no
\* empty-payload check)
UpdateSettings(p, update) ==
    /\ CanStart(p)
    /\ started' = started + 1
    /\ settings' = UpsertSettings(settings, SettingsUpdateData(update, Now))
    /\ req' = [req EXCEPT ![p] =
                 [Begin("update_settings", [update |-> update]) EXCEPT !.pc = "ust_find"]]
    /\ UNCHANGED <<zones, sensors, events, system_state, twilio, uuids>>

\* PUT /settings: find_one for the response
UpdateSettingsFind(p) ==
    /\ At(p, "update_settings", "ust_find")
    /\ req' = [req EXCEPT ![p] =
                 IF settings = <<>>
                 THEN Fail(req[p], 500)
                 ELSE Return(req[p], [settings |-> Head(settings)])]
    /\ UNCHANGED <<zones, sensors, events, system_state, settings, twilio, started, uuids>>

\* ------------------------------------------------------------------ dashboard
\* GET /dashboard/stats: get_system_state()
GetDashboardStats(p) ==
    /\ CanStart(p)
    /\ started' = started + 1
    /\ SystemStateFind(p, Begin("get_dashboard_stats",
                                [state |-> "none", zones_count |-> 0, sensors_count |-> 0,
                                 triggered_count |-> 0]))

\* GET /dashboard/stats: count_documents({}) on the zones
DashboardZones(p) ==
    /\ At(p, "get_dashboard_stats", "dash_zones")
    /\ req' = [req EXCEPT ![p].zones_count = Cardinality(DOMAIN zones),
                          ![p].pc = "dash_sensors"]
    /\ UNCHANGED <<zones, sensors, events, system_state, settings, twilio, started, uuids>>

\* GET /dashboard/stats: count_documents({}) on the sensors
DashboardSensors(p) ==
    /\ At(p, "get_dashboard_stats", "dash_sensors")
    /\ req' = [req EXCEPT ![p].sensors_count = Cardinality(DOMAIN sensors),
                          ![p].pc = "dash_triggered"]
    /\ UNCHANGED <<zones, sensors, events, system_state, settings, twilio, started, uuids>>

\* GET /dashboard/stats: count_documents({"status": "triggered"})
DashboardTriggered(p) ==
    /\ At(p, "get_dashboard_stats", "dash_triggered")
    /\ req' = [req EXCEPT ![p].triggered_count =
                            Cardinality({s \in DOMAIN sensors : sensors[s].status = "triggered"}),
                          ![p].pc = "dash_events"]
    /\ UNCHANGED <<zones, sensors, events, system_state, settings, twilio, started, uuids>>

\* find({}).sort("timestamp", -1).to_list(5): the newest five events
Recent(log, limit) ==
    [i \in 1..(IF Len(log) < limit THEN Len(log) ELSE limit) |-> log[Len(log) + 1 - i]]

\* GET /dashboard/stats: the recent events, then the response
DashboardEvents(p) ==
    /\ At(p, "get_dashboard_stats", "dash_events")
    /\ req' = [req EXCEPT ![p] =
                 Return(req[p], [system_mode |-> req[p].state,
                                 zones_count |-> req[p].zones_count,
                                 sensors_count |-> req[p].sensors_count,
                                 triggered_count |-> req[p].triggered_count,
                                 recent_events |-> Recent(events, 5)])]
    /\ UNCHANGED <<zones, sensors, events, system_state, settings, twilio, started, uuids>>

\* ------------------------------------------------------------------ specification
\* The database the server is started on: empty, or what earlier requests
\* and a final clear_events left there: one zone with one sensor, the
\* system_state document absent or armed, the settings document absent,
\* complete, or upserted without a phone number; what is stored was stamped
\* before the clock of this run started.
SeedSystemStates == {<<>>, <<"armed">>}
SeedSettings ==
    { <<>>,
      <<SettingsDoc(Some(TRUE), Some("+15550100"), Some(IsoFormat(-1)))>>,
      <<SettingsDoc(Some(TRUE), NULL, Some(IsoFormat(-1)))>> }

Init ==
    /\ twilio = TwilioUnread
    /\ req = [p \in Procs |-> Idle]
    /\ started = 0
    /\ \/ /\ zones = <<>>
          /\ sensors = <<>>
          /\ uuids = [zone |-> 0, sensor |-> 0]
          /\ system_state = <<>>
          /\ settings = <<>>
          /\ events = <<>>
       \/ /\ zones = (1 :> Zone("Hall", "", ""))
          /\ sensors = (1 :> Sensor("Front", "motion", 1, 100))
          /\ uuids = [zone |-> 1, sensor |-> 1]
          /\ system_state \in SeedSystemStates
          /\ settings \in SeedSettings
          /\ events = <<ClearedEvent>>

\* The handlers, by router section
SystemStateSteps(p) ==
    \/ GetState(p)
    \/ \E m \in Modes : UpdateState(p, m)
    \/ UpdateStateWrite(p)
    \/ UpdateStateLog(p)

ZoneSteps(p) ==
    \/ \E n \in ZoneNames : CreateZone(p, n)
    \/ CreateZoneLog(p)
    \/ \E z \in Known(ZoneIds, uuids.zone), u \in ZoneUpdates : UpdateZone(p, z, u)
    \/ UpdateZoneFind(p)

DeleteZoneSteps(p) ==
    \/ \E z \in Known(ZoneIds, uuids.zone) : DeleteZone(p, z)
    \/ DeleteZoneSensors(p)
    \/ DeleteZoneZone(p)
    \/ DeleteZoneLog(p)

CreateSensorSteps(p) ==
    \/ \E n \in SensorNames, t \in CreateTypes, z \in Known(ZoneIds, uuids.zone) :
         CreateSensor(p, n, t, z)
    \/ CreateSensorInsert(p)
    \/ CreateSensorLog(p)

UpdateSensorSteps(p) ==
    \/ \E s \in Known(SensorIds, uuids.sensor), u \in SensorUpdates : UpdateSensor(p, s, u)
    \/ UpdateSensorFind(p)

DeleteSensorSteps(p) ==
    \/ \E s \in Known(SensorIds, uuids.sensor) : DeleteSensor(p, s)
    \/ DeleteSensorDelete(p)
    \/ DeleteSensorLog(p)

ResetSteps(p) == \E s \in Known(SensorIds, uuids.sensor) : ResetSensor(p, s)

TriggerSteps(p) ==
    \/ \E s \in Known(SensorIds, uuids.sensor) : TriggerSensor(p, s)
    \/ TriggerZone(p)
    \/ TriggerUpdate(p)
    \/ TriggerGetState(p)
    \/ TriggerLog(p)
    \/ SendSmsAlert(p)
    \/ SendSmsAlertLog(p)

EventSteps(p) ==
    \/ ClearEvents(p)
    \/ ClearEventsLog(p)

GetSettingsSteps(p) ==
    \/ GetSettings(p)
    \/ GetSettingsInsert(p)

UpdateSettingsSteps(p) ==
    \/ \E u \in SettingsUpdates : UpdateSettings(p, u)
    \/ UpdateSettingsFind(p)

DashboardSteps(p) ==
    \/ GetDashboardStats(p)
    \/ DashboardZones(p)
    \/ DashboardSensors(p)
    \/ DashboardTriggered(p)
    \/ DashboardEvents(p)

\* Every handler of the router
Next ==
    \E p \in Procs :
        \/ GetSystemStateInsert(p)
        \/ SystemStateSteps(p)
        \/ ZoneSteps(p)
        \/ DeleteZoneSteps(p)
        \/ CreateSensorSteps(p)
        \/ UpdateSensorSteps(p)
        \/ DeleteSensorSteps(p)
        \/ ResetSteps(p)
        \/ TriggerSteps(p)
        \/ EventSteps(p)
        \/ GetSettingsSteps(p)
        \/ UpdateSettingsSteps(p)
        \/ DashboardSteps(p)

Spec == Init /\ [][Next]_vars

\* The alarm path: triggers against mode changes, settings changes,
\* sensor resets and zone deletions.
NextAlarm ==
    \E p \in Procs :
        \/ GetSystemStateInsert(p)
        \/ TriggerSteps(p)
        \/ SystemStateSteps(p)
        \/ UpdateSettingsSteps(p)
        \/ ResetSteps(p)
        \/ DeleteZoneSteps(p)

SpecAlarm == Init /\ [][NextAlarm]_vars

\* The mode path: reads and writes of the system_state singleton by every
\* handler that calls get_system_state.
NextState ==
    \E p \in Procs :
        \/ GetSystemStateInsert(p)
        \/ SystemStateSteps(p)
        \/ TriggerSteps(p)
        \/ DashboardSteps(p)

SpecState == Init /\ [][NextState]_vars

\* The zone and sensor resources: create, patch, delete, reset.
NextCrud ==
    \E p \in Procs :
        \/ ZoneSteps(p)
        \/ DeleteZoneSteps(p)
        \/ CreateSensorSteps(p)
        \/ UpdateSensorSteps(p)
        \/ DeleteSensorSteps(p)
        \/ ResetSteps(p)

SpecCrud == Init /\ [][NextCrud]_vars

\* The cascade: sensor creations against zone deletions, no other writer of
\* a zone_id.
NextCascade ==
    \E p \in Procs :
        \/ CreateSensorSteps(p)
        \/ DeleteZoneSteps(p)

SpecCascade == Init /\ [][NextCascade]_vars

\* The settings singleton: lazy creation and upserts.
NextSettings ==
    \E p \in Procs :
        \/ GetSettingsSteps(p)
        \/ UpdateSettingsSteps(p)

SpecSettings == Init /\ [][NextSettings]_vars

\* ------------------------------------------------------------------ claims
\* How many of the Events in log have the given type
CountType(log, type) == Cardinality({i \in 1..Len(log) : log[i].type = type})

\* A trigger_sensor request in slot p that found its sensor
Triggering(p) == req[p].op = "trigger_sensor" /\ req[p].resp.status # 404

\* A trigger_sensor request in slot p that has returned its response
Triggered(p) == Triggering(p) /\ req[p].pc = "done"

\* C1: a trigger_sensor request that read mode "armed" has, once it returns,
\* appended exactly one Event of type "intrusion", of severity "danger", and
\* called send_sms_alert exactly once; while it runs it never exceeds either.
C1_ArmedOneIntrusionOneDispatch ==
    \A p \in Procs :
        Triggering(p) /\ req[p].state = "armed" =>
            /\ CountType(req[p].logged, "intrusion") <= 1
            /\ req[p].sms_calls <= 1
            /\ \A i \in 1..Len(req[p].logged) :
                 req[p].logged[i].type = "intrusion" => req[p].logged[i].severity = "danger"
            /\ req[p].pc = "done" =>
                 /\ CountType(req[p].logged, "intrusion") = 1
                 /\ req[p].sms_calls = 1

\* An armed trigger has returned while another request ran beside it
C1_Witness ==
    \E p \in Procs :
        /\ Triggered(p) /\ req[p].state = "armed"
        /\ \E q \in Procs \ {p} : req[q].op # "none"

\* C2: a trigger_sensor request that read mode "monitoring" or "disarmed"
\* never calls send_sms_alert, never invokes the provider, and appends no
\* "intrusion" and no "sms_sent" Event.
C2_NoDispatchUnlessArmed ==
    \A p \in Procs :
        Triggering(p) /\ req[p].state \in {"monitoring", "disarmed"} =>
            /\ req[p].sms_calls = 0
            /\ req[p].provider = <<>>
            /\ CountType(req[p].logged, "intrusion") = 0
            /\ CountType(req[p].logged, "sms_sent") = 0

\* A trigger has returned in monitoring mode with SMS alerts enabled and a
\* phone number set, and the gateway configuration was never consulted
C2_Witness ==
    \E p \in Procs :
        /\ Triggered(p) /\ req[p].state = "monitoring"
        /\ settings # <<>>
        /\ Head(settings).sms_enabled = Some(TRUE)
        /\ Head(settings).alert_phone_number = Some("+15550100")
        /\ twilio = TwilioUnread

\* C3: the Event and the response of a returned trigger_sensor request are a
\* function of the mode it read, and the Event carries the sensor's id and
\* the zone_id of the sensor document the request found.
C3_ResultByMode ==
    \A p \in Procs :
        Triggered(p) =>
            LET r == req[p]
                first == r.logged[1]
                outcome == <<first.type, first.severity, r.resp.alert, r.resp.severity>> IN
            /\ r.resp.status = 200
            /\ Len(r.logged) >= 1
            /\ first.sensor_id = Some(r.sensor_id)
            /\ first.zone_id = Some(r.sensor.zone_id)
            /\ r.state = "armed" =>
                 outcome = <<"intrusion", "danger", TRUE, "danger">>
            /\ r.state = "monitoring" =>
                 /\ outcome = <<"sensor_triggered", "warning", FALSE, "warning">>
                 /\ Len(r.logged) = 1
            /\ r.state = "disarmed" =>
                 /\ outcome = <<"sensor_triggered", "info", FALSE, "info">>
                 /\ Len(r.logged) = 1

\* A trigger has returned having read "disarmed", with its one Event in the log
C3_Witness ==
    \E p \in Procs :
        /\ Triggered(p) /\ req[p].state = "disarmed"
        /\ req[p].resp.severity = "info"
        /\ \E i \in 1..Len(events) : events[i] = req[p].logged[1]

\* The step in which slot p's trigger_sensor request writes the sensor
TriggerWrites(p) ==
    /\ req[p].op = "trigger_sensor" /\ req[p].pc = "ts_update"
    /\ req'[p].pc # "ts_update"

\* C4: the status write of trigger_sensor sets the (still stored) sensor to
\* "triggered" and stamps last_triggered with the request's time, whatever
\* its status was; it happens before the mode is read and before any Event is
\* appended, and no request gets past it without it: behind the write, a
\* stored sensor carries a stamp.
C4_StatusWrittenFirst ==
    /\ [][\A p \in Procs :
            TriggerWrites(p) =>
                LET id == req[p].sensor_id IN
                /\ req[p].state = "none"
                /\ req[p].logged = <<>>
                /\ events' = events
                /\ DOMAIN sensors' = DOMAIN sensors
                /\ id \in DOMAIN sensors =>
                     /\ sensors'[id].status = "triggered"
                     /\ sensors'[id].last_triggered = <<"iso", req[p].now>>]_vars
    /\ [](\A p \in Procs :
            Triggering(p) /\ req[p].pc \in {"ts_zone", "ts_update"} =>
                req[p].state = "none" /\ req[p].logged = <<>>)
    /\ [](\A p \in Procs :
            /\ Triggering(p)
            /\ req[p].pc \notin {"ts_zone", "ts_update"}
            /\ req[p].sensor_id \in DOMAIN sensors
            => sensors[req[p].sensor_id].last_triggered # NULL)

\* A trigger that read "disarmed" has returned and its sensor, "inactive"
\* when found, is stored as "triggered" with the request's stamp
C4_Witness ==
    \E p \in Procs :
        /\ Triggered(p) /\ req[p].state = "disarmed"
        /\ req[p].sensor.status = "inactive"
        /\ req[p].sensor_id \in DOMAIN sensors
        /\ sensors[req[p].sensor_id].status = "triggered"
        /\ sensors[req[p].sensor_id].last_triggered = <<"iso", req[p].now>>

\* C5: a trigger_sensor request that found its sensor returns 200; a missing
\* zone gives the name "Unknown Zone"; armed, it answers alert/danger with the
\* intrusion Event recorded whatever send_sms_alert did, and a send that
\* failed leaves only the "sms_sent" Event out.
C5_NeverFailsAfterLookup ==
    \A p \in Procs :
        Triggered(p) =>
            LET r == req[p] IN
            /\ r.resp.status = 200
            /\ r.resp.message[4] = r.zone_name
            /\ r.state = "armed" =>
                 /\ r.resp.alert = TRUE /\ r.resp.severity = "danger"
                 /\ CountType(r.logged, "intrusion") = 1
                 /\ r.sms_result \in {Some(TRUE), Some(FALSE)}
                 /\ r.sms_result = Some(FALSE) => Len(r.logged) = 1
                 /\ r.sms_result = Some(TRUE) =>
                      Len(r.logged) = 2 /\ r.logged[2].type = "sms_sent"

\* The zone lookup of trigger_sensor: a zone that is not stored reads as
\* "Unknown Zone", a stored one by its name.
C5_UnknownZone ==
    [][\A p \in Procs :
          req[p].op = "trigger_sensor" /\ req[p].pc = "ts_zone" /\ req'[p] # req[p] =>
              /\ req'[p].pc = "ts_update"
              /\ req'[p].zone_name =
                    IF req[p].sensor.zone_id \in DOMAIN zones
                    THEN zones[req[p].sensor.zone_id].name
                    ELSE "Unknown Zone"]_vars

C5_TriggerNeverFails == []C5_NeverFailsAfterLookup /\ C5_UnknownZone

\* An armed trigger has returned alert/danger although its zone was gone and
\* the provider raised
C5_Witness ==
    \E p \in Procs :
        /\ Triggered(p) /\ req[p].state = "armed"
        /\ req[p].zone_name = "Unknown Zone"
        /\ req[p].provider = <<"raised">>
        /\ req[p].resp.alert = TRUE

\* The step in which send_sms_alert, called by slot p's request, reads the
\* settings and either returns or goes on to log the send
SmsDecides(p) ==
    /\ req[p].op = "trigger_sensor" /\ req[p].pc = "sms_find"
    /\ req'[p] # req[p]

\* The settings document is absent, SMS is off, or there is no phone number
NoSmsSettings ==
    \/ settings = <<>>
    \/ /\ settings # <<>>
       /\ \/ Head(settings).sms_enabled \in {NULL, Some(FALSE)}
          \/ Head(settings).alert_phone_number \in {NULL, Some("")}

\* C6, the step: when SMS is off, unset or the gateway unconfigured,
\* send_sms_alert returns False, does not invoke the provider and changes no
\* collection; otherwise it invokes the provider once.
C6_SmsStep ==
    /\ [][\A p \in Procs :
          SmsDecides(p) =>
              /\ UNCHANGED <<zones, sensors, events, system_state, settings>>
              /\ twilio'.read => twilio' \in TwilioConfigs
              /\ twilio.read => twilio' = twilio
              /\ ~NoSmsSettings => twilio'.read
              /\ IF NoSmsSettings \/ ~twilio'.read \/ ~twilio'.client \/ ~twilio'.phone_number
                 THEN /\ req'[p].sms_result = Some(FALSE)
                      /\ req'[p].provider = <<>>
                      /\ req'[p].logged = req[p].logged
                 ELSE Len(req'[p].provider) = 1]_vars
    /\ [][\A p \in Procs :
            req[p].op = "trigger_sensor" /\ req[p].pc = "sms_log" /\ req'[p] # req[p] =>
                /\ Len(events') = Len(events) + 1
                /\ events'[Len(events')].type = "sms_sent"
                /\ req'[p].sms_result = Some(TRUE)]_vars

\* C6, the result: send_sms_alert returns True exactly when the provider
\* send succeeded, and exactly then one "sms_sent" Event is appended; a
\* provider error gives False and a 200 response.
C6_SmsResult ==
    \A p \in Procs :
        Triggering(p) /\ req[p].sms_result # NULL =>
            /\ req[p].pc = "done" /\ req[p].resp.status = 200
            /\ req[p].sms_result = Some(TRUE) <=> req[p].provider = <<"sent">>
            /\ req[p].sms_result = Some(FALSE) <=> req[p].provider \in {<<>>, <<"raised">>}
            /\ CountType(req[p].logged, "sms_sent") =
                 IF req[p].sms_result = Some(TRUE) THEN 1 ELSE 0

C6_SendSmsAlert == []C6_SmsResult /\ C6_SmsStep

\* send_sms_alert has returned True with its "sms_sent" Event last in the log
C6_Witness ==
    \E p \in Procs :
        /\ Triggered(p)
        /\ req[p].sms_result = Some(TRUE)
        /\ events # <<>> /\ events[Len(events)].type = "sms_sent"

\* The Event a change to the given mode is to leave in the log
C7_Expected(mode) ==
    IF mode = "armed"
    THEN [type |-> "armed", message |-> <<"System armed">>, severity |-> "warning",
          sensor_id |-> NULL, zone_id |-> NULL]
    ELSE IF mode = "disarmed"
    THEN [type |-> "disarmed", message |-> <<"System disarmed">>, severity |-> "info",
          sensor_id |-> NULL, zone_id |-> NULL]
    ELSE [type |-> "monitor_start", message |-> <<"Monitoring mode enabled">>,
          severity |-> "info", sensor_id |-> NULL, zone_id |-> NULL]

\* C7, the write: the upsert of update_state leaves new_mode as the mode
\* every reader finds, adds a document only when there was none, and appends
\* no Event itself.
C7_Write ==
    [][\A p \in Procs :
          req[p].op = "update_state" /\ req[p].pc = "us_update" /\ req'[p] # req[p] =>
              /\ system_state' # <<>>
              /\ Head(system_state') = req[p].new_mode
              /\ Len(system_state') = IF system_state = <<>> THEN 1 ELSE Len(system_state)
              /\ events' = events]_vars

\* C7, the Event: a returned update_state has appended the one Event of its
\* new mode if that differs from the mode it read, and none if it is the same.
C7_Event ==
    \A p \in Procs :
        req[p].op = "update_state" =>
            /\ req[p].pc = "us_log" => req[p].state # req[p].new_mode
            /\ req[p].pc # "done" => req[p].logged = <<>>
            /\ req[p].pc = "done" =>
                 /\ req[p].resp = [status |-> 200, mode |-> req[p].new_mode]
                 /\ req[p].logged = IF req[p].state = req[p].new_mode
                                    THEN <<>>
                                    ELSE <<C7_Expected(req[p].new_mode)>>

\* The step in which update_state appends: the Event goes to the end of the log
C7_Append ==
    [][\A p \in Procs :
          req[p].op = "update_state" /\ req[p].pc = "us_log" /\ req'[p] # req[p] =>
              events' = Append(events, C7_Expected(req[p].new_mode))]_vars

C7_UpdateState == []C7_Event /\ C7_Write /\ C7_Append

\* Two update_state requests have returned, one to the mode it read (no Event)
\* and one to another mode (one Event), and the stored mode is one of theirs
C7_Witness ==
    \E p, q \in Procs :
        /\ req[p].op = "update_state" /\ req[p].pc = "done"
        /\ req[p].state = req[p].new_mode /\ req[p].logged = <<>>
        /\ req[q].op = "update_state" /\ req[q].pc = "done"
        /\ req[q].state # req[q].new_mode /\ Len(req[q].logged) = 1
        /\ Head(system_state) \in {req[p].new_mode, req[q].new_mode}

\* C8: the system_state collection never holds more than one document with
\* id "system_state".
C8_AtMostOneDocument == Len(system_state) <= 1

\* C8, the rest: once a document is stored one stays stored, and a document
\* that get_system_state inserts has mode "disarmed".
C8_CreatedOnceDisarmed ==
    [][/\ system_state # <<>> => Len(system_state') >= Len(system_state)
       /\ \A p \in Procs :
            req[p].pc = "gss_insert" /\ req'[p] # req[p] =>
                system_state' = Append(system_state, "disarmed")]_vars

\* A request of the given operation starts in slot p in this step
Starts(p, op) ==
    /\ started' = started + 1
    /\ Free(p) /\ \A q \in Procs : q < p => ~Free(q)
    /\ req'[p].op = op

\* The sensors with the given zone_id
SensorsOf(coll, zone_id) == {s \in DOMAIN coll : coll[s].zone_id = zone_id}

\* C9, the steps of delete_zone: a missing zone fails with 404 and nothing
\* changes; otherwise the sensors of the zone go, all of them and no others,
\* then the zone, then one "zone_removed" Event is appended.
C9_Steps ==
    /\ [][\A p \in Procs :
            Starts(p, "delete_zone") =>
                /\ UNCHANGED <<zones, sensors, events, system_state, settings>>
                /\ IF req'[p].zone_id \in DOMAIN zones
                   THEN req'[p].pc = "dz_sensors"
                   ELSE req'[p].pc = "done" /\ req'[p].resp.status = 404]_vars
    /\ [][\A p \in Procs :
            req[p].op = "delete_zone" /\ req[p].pc = "dz_sensors" /\ req'[p] # req[p] =>
                /\ DOMAIN sensors' = DOMAIN sensors \ SensorsOf(sensors, req[p].zone_id)
                /\ \A s \in DOMAIN sensors' : sensors'[s] = sensors[s]
                /\ UNCHANGED <<zones, events>>]_vars
    /\ [][\A p \in Procs :
            req[p].op = "delete_zone" /\ req[p].pc = "dz_zone" /\ req'[p] # req[p] =>
                /\ DOMAIN zones' = DOMAIN zones \ {req[p].zone_id}
                /\ \A z \in DOMAIN zones' : zones'[z] = zones[z]
                /\ UNCHANGED <<sensors, events>>]_vars
    /\ [][\A p \in Procs :
            req[p].op = "delete_zone" /\ req[p].pc = "dz_log" /\ req'[p] # req[p] =>
                /\ Len(events') = Len(events) + 1
                /\ events'[Len(events')].type = "zone_removed"
                /\ events'[Len(events')].zone_id = Some(req[p].zone_id)
                /\ req'[p].pc = "done" /\ req'[p].resp.status = 200
                /\ UNCHANGED <<zones, sensors>>]_vars

\* C9, the log: a returned delete_zone has appended exactly one Event, of
\* type "zone_removed", if the zone was found, and none if it was not; before
\* it returns it has appended none.
C9_Log ==
    \A p \in Procs :
        req[p].op = "delete_zone" =>
            /\ req[p].pc # "done" => req[p].logged = <<>>
            /\ req[p].pc = "done" /\ req[p].resp.status = 404 => req[p].logged = <<>>
            /\ req[p].pc = "done" /\ req[p].resp.status # 404 =>
                 /\ req[p].resp.status = 200
                 /\ Len(req[p].logged) = 1
                 /\ req[p].logged[1].type = "zone_removed"

C9_DeleteZone == []C9_Log /\ C9_Steps

\* delete_zone has returned after removing a zone that held two sensors: the
\* second sensor was added to zone 1 and no sensor is left
C9_Witness ==
    \E p \in Procs :
        /\ req[p].op = "delete_zone" /\ req[p].pc = "done" /\ req[p].resp.status = 200
        /\ sensors = <<>>
        /\ \E i \in 1..Len(events) :
             /\ events[i].type = "sensor_added"
             /\ events[i].sensor_id = Some(2) /\ events[i].zone_id = Some(req[p].zone_id)
        /\ events[Len(events)].type = "zone_removed"

\* C10: reset_sensor leaves a stored sensor "active" and touches nothing but
\* that sensor's status; on a sensor that is already "active" it changes no
\* stored document at all; it never appends an Event.  A second reset
\* therefore leaves what the first one left.
C10_ResetIdempotent ==
    [][\A p \in Procs :
          Starts(p, "reset_sensor") =>
              LET id == req'[p].sensor_id IN
              /\ UNCHANGED <<zones, events, system_state, settings>>
              /\ req'[p].logged = <<>>
              /\ DOMAIN sensors' = DOMAIN sensors
              /\ \A s \in DOMAIN sensors \ {id} : sensors'[s] = sensors[s]
              /\ IF id \in DOMAIN sensors
                 THEN /\ req'[p].resp.status = 200
                      /\ sensors'[id] = [sensors[id] EXCEPT !.status = "active"]
                      /\ sensors[id].status = "active" => sensors' = sensors
                 ELSE /\ req'[p].resp.status = 404
                      /\ sensors' = sensors]_vars

\* A reset has returned 200 on a sensor that was already "active": the
\* update matched one document and modified none
C10_Witness ==
    \E p \in Procs :
        /\ req[p].op = "reset_sensor" /\ req[p].pc = "done" /\ req[p].resp.status = 200
        /\ req[p].result = [matched_count |-> 1, modified_count |-> 0]
        /\ sensors[req[p].sensor_id].status = "active"

\* The request in slot p is a zone or sensor update whose payload has every
\* field null
EmptyPatch(r) ==
    /\ r.op \in {"update_zone", "update_sensor"}
    /\ \A k \in DOMAIN r.update : r.update[k] = NULL

\* C11, the step: update_zone and update_sensor called with every field null
\* fail with 400 in the step they start in, before update_one or find_one,
\* and no collection changes, whether or not the id is stored.
C11_Step ==
    [][\A p \in Procs :
          (Starts(p, "update_zone") \/ Starts(p, "update_sensor")) /\ EmptyPatch(req'[p]) =>
              /\ req'[p].pc = "done" /\ req'[p].resp.status = 400
              /\ UNCHANGED <<zones, sensors, events, system_state, settings>>]_vars

\* C11, the result: such a request is never found past its first step, has
\* answered 400 and has logged nothing.
C11_Rejected ==
    \A p \in Procs :
        EmptyPatch(req[p]) =>
            /\ req[p].pc = "done" /\ req[p].resp.status = 400
            /\ req[p].logged = <<>>

C11_EmptyPatchRejected == []C11_Rejected /\ C11_Step

\* An empty update_sensor addressed to a stored sensor has answered 400
C11_Witness ==
    \E p \in Procs :
        /\ req[p].op = "update_sensor" /\ EmptyPatch(req[p])
        /\ req[p].sensor_id \in DOMAIN sensors
        /\ req[p].pc = "done" /\ req[p].resp.status = 400

\* The request record is an update_settings whose payload has every field null
EmptySettingsPatch(r) ==
    /\ r.op = "update_settings"
    /\ \A k \in DOMAIN r.update : r.update[k] = NULL

\* C12 as stated: update_settings called with every field null is rejected
\* with the 400 "No update data provided" error and the settings documents
\* are left as they were.
C12_EmptySettingsRejected ==
    [][\A p \in Procs :
          Starts(p, "update_settings") /\ EmptySettingsPatch(req'[p]) =>
              /\ req'[p].pc = "done" /\ req'[p].resp.status = 400
              /\ UNCHANGED settings]_vars

\* C12 as amended, the step: update_settings called with every field null is
\* not rejected.  It upserts: the first settings document, created if there
\* was none, gets updated_at set to the current time and keeps its
\* sms_enabled and alert_phone_number (both absent on a document just
\* created); nothing else is written.
C12_EmptyUpsert ==
    [][\A p \in Procs :
          Starts(p, "update_settings") /\ EmptySettingsPatch(req'[p]) =>
              /\ req'[p].pc = "ust_find"
              /\ UNCHANGED <<zones, sensors, events, system_state>>
              /\ Len(settings') = (IF settings = <<>> THEN 1 ELSE Len(settings))
              /\ settings'[1].updated_at = <<<<"iso", started>>>>
              /\ settings'[1].sms_enabled =
                   (IF settings = <<>> THEN <<>> ELSE settings[1].sms_enabled)
              /\ settings'[1].alert_phone_number =
                   (IF settings = <<>> THEN <<>> ELSE settings[1].alert_phone_number)
              /\ \A i \in 2..Len(settings) : settings'[i] = settings[i]]_vars

\* C12 as amended, the result: every update_settings that has returned
\* answered 200; none answers 400.
C12_Accepted ==
    \A p \in Procs :
        req[p].op = "update_settings" /\ req[p].pc = "done" => req[p].resp.status = 200

C12_EmptySettingsAccepted == []C12_Accepted /\ C12_EmptyUpsert

\* An update_settings with every field null has answered 200 with a stored
\* document that already had SMS enabled and was stamped anew by the request
C12_Witness ==
    \E p \in Procs :
        /\ EmptySettingsPatch(req[p])
        /\ req[p].pc = "done" /\ req[p].resp.status = 200
        /\ req[p].resp.settings.sms_enabled = <<TRUE>>
        /\ req[p].resp.settings.updated_at # <<<<"iso", -1>>>>

\* log is an extension of old: every Event of old is still there, unmodified
\* and in place
Extends(log, old) ==
    /\ Len(log) >= Len(old)
    /\ \A i \in 1..Len(old) : log[i] = old[i]

\* C13, the log is append-only: a step that is not the delete_many of a
\* clear_events leaves every Event in place; that delete_many empties the
\* collection and the request goes on to its log_event.
C13_AppendOnly ==
    [][\/ Extends(events', events)
       \/ \E p \in Procs :
            /\ Starts(p, "clear_events")
            /\ events' = <<>>
            /\ req'[p].pc = "ce_log"]_vars

\* C13, the completion: the step in which clear_events returns appends the
\* "Activity log cleared" system Event, so the log is not empty then and that
\* Event is its last.
C13_ClearedLogged ==
    [][\A p \in Procs :
          req[p].op = "clear_events" /\ ~Free(p) /\ req'[p] # req[p] =>
              /\ req[p].pc = "ce_log" /\ req'[p].pc = "done"
              /\ events' # <<>>
              /\ Extends(events', events) /\ Len(events') = Len(events) + 1
              /\ events'[Len(events')] =
                   [type |-> "system", message |-> <<"Activity log cleared">>,
                    severity |-> "info", sensor_id |-> <<>>, zone_id |-> <<>>]
              /\ req'[p].resp.status = 200]_vars

\* Requests take the lowest free slot, so the slots above the first are used
\* only by requests that overlapped another one
NoConcurrency == \A q \in Procs \ {1} : req[q] = Idle

\* C13, alone: when no two requests ever overlapped, a clear_events that has
\* returned leaves exactly the one system Event.
C13_AloneExactlyOne ==
    NoConcurrency /\ req[1].op = "clear_events" /\ req[1].pc = "done" =>
        /\ Len(events) = 1
        /\ events[1].type = "system" /\ events[1].message = <<"Activity log cleared">>

C13_ClearEvents == []C13_AloneExactlyOne /\ C13_AppendOnly /\ C13_ClearedLogged

\* clear_events has returned while a create_zone that logged between its
\* delete_many and its log_event ran beside it: the log holds "zone_added"
\* and, last, the system Event
C13_Witness ==
    \E p \in Procs :
        /\ req[p].op = "clear_events" /\ req[p].pc = "done"
        /\ Len(events) = 2
        /\ events[1].type = "zone_added"
        /\ events[2].type = "system"

\* The operations that log: a returned create or delete of a zone or sensor,
\* or a trigger, that answered 200
LoggingOps == {"create_zone", "delete_zone", "create_sensor", "delete_sensor",
               "trigger_sensor"}

\* The operations that write a zone, a sensor or the settings and never log
SilentOps == {"update_zone", "update_sensor", "reset_sensor", "update_settings"}

\* The returned request r changed a stored zone, sensor, mode or settings
\* document: it created, deleted or triggered with success, its update_one
\* modified a document, it upserted the settings (updated_at at least), or
\* it wrote a mode other than the one it had read.
ChangedStoredState(r) ==
    /\ r.pc = "done"
    /\ \/ r.op \in LoggingOps /\ r.resp.status = 200
       \/ r.op \in {"update_zone", "update_sensor", "reset_sensor"}
            /\ r.result = [matched_count |-> 1, modified_count |-> 1]
       \/ r.op = "update_settings"
       \/ r.op = "update_state" /\ r.state # r.new_mode

\* C14 as stated: every returned request that changed stored state has
\* appended at least one Event.
C14_EveryChangeLogged ==
    \A p \in Procs : ChangedStoredState(req[p]) => Len(req[p].logged) >= 1

\* C14 as amended: a returned create or delete of a zone or sensor and a
\* returned trigger that answered 200, and a returned update_state whose new
\* mode differs from the mode it read, have each appended at least one Event;
\* update_zone, update_sensor, reset_sensor and update_settings never append
\* one, whether or not they modified a document.
C14_LoggedOrSilent ==
    \A p \in Procs :
        /\ req[p].pc = "done" /\ req[p].op \in LoggingOps /\ req[p].resp.status = 200 =>
             Len(req[p].logged) >= 1
        /\ req[p].pc = "done" /\ req[p].op = "update_state"
             /\ req[p].state # req[p].new_mode => Len(req[p].logged) = 1
        /\ req[p].op \in SilentOps => req[p].logged = <<>>

\* C14 as amended, the appends: what a request has logged grows only in a
\* step that puts that Event at the end of the log.
C14_Appends ==
    [][\A p \in Procs :
          req'[p].op # "none" /\ req[p].op = req'[p].op /\ ~Free(p)
            /\ req'[p].logged # req[p].logged =>
              /\ Len(req'[p].logged) = Len(req[p].logged) + 1
              /\ Len(events') = Len(events) + 1
              /\ events'[Len(events')] = req'[p].logged[Len(req'[p].logged)]]_vars

C14_AuditLog == []C14_LoggedOrSilent /\ C14_Appends

\* A create_zone has returned with its "zone_added" Event logged while an
\* update_zone that modified a zone has returned 200 with nothing logged
C14_Witness ==
    \E p, q \in Procs :
        /\ req[p].op = "create_zone" /\ req[p].pc = "done"
        /\ Len(req[p].logged) = 1 /\ req[p].logged[1].type = "zone_added"
        /\ req[q].op = "update_zone" /\ req[q].pc = "done" /\ req[q].resp.status = 200
        /\ req[q].result = [matched_count |-> 1, modified_count |-> 1]
        /\ req[q].logged = <<>>

\* Every stored sensor's zone_id is the id of a stored zone
NoOrphans == \A s \in DOMAIN sensors : sensors[s].zone_id \in DOMAIN zones

\* C15: with only create_sensor and delete_zone requests running, once every
\* request has returned each stored sensor's zone_id refers to a stored zone.
C15_NoOrphanSensor ==
    (\A p \in Procs : Free(p)) => NoOrphans

\* When no two requests ever overlapped, no sensor is left without its zone
C15_SerialNoOrphanSensor ==
    NoConcurrency /\ Free(1) => NoOrphans

====
